---- MODULE Spec2Model ----
(***************************************************************************)
(* The news and score REST handlers of the MobileGameDev server            *)
(* (apis/news_api.js, apis/score_api.js) over the two DynamoDB tables      *)
(* they read and write.  A request is a handler invocation followed by     *)
(* the callbacks of the store calls it issued; two clients issue requests  *)
(* concurrently, so callbacks of different requests interleave.            *)
(* The Server object of server.js, with its listening port, is modelled    *)
(* from its construction up to start.                                      *)
(***************************************************************************)
EXTENDS Integers, Sequences, FiniteSets

\* ------------------------------------------------------------------ bounds
\* Requests received in one run of the server, when requests overlap.
MaxRequests == 2

\* Requests received in one run of the server, when they come one at a time.
MaxSeqRequests == 3

\* Highest post identifier a deleteNews body names.
MaxPostIDInput == 1

\* Calls of setListeningPort on one Server object.
MaxCalls == 3

\* ------------------------------------------------------- program constants
\* Limit of the getTopScores query.
Limit == 5

Clients == {"c1", "c2"}

Services == {"VERSION1", "VERSION2"}

\* --------------------------------------------- numbers as DynamoDB N strings
\* A string is a sequence of one-character strings.
DigitChars == <<"0", "1", "2", "3", "4", "5", "6", "7", "8", "9">>

IsDigit(ch) == \E d \in 1..10 : DigitChars[d] = ch

DigitOf(ch) == (CHOOSE d \in 1..10 : DigitChars[d] = ch) - 1

\* The strings DynamoDB accepts as the N of a key attribute.
IsNumeric(s) ==
    /\ Len(s) > 0
    /\ \A i \in 1..Len(s) : IsDigit(s[i]) \/ (i = 1 /\ s[i] = "-" /\ Len(s) > 1)

RECURSIVE ParseNat(_)
ParseNat(s) ==
    IF s = <<>> THEN 0
    ELSE ParseNat(SubSeq(s, 1, Len(s) - 1)) * 10 + DigitOf(s[Len(s)])

\* Number(str) of a numeric string.
Number(s) == IF s[1] = "-" THEN 0 - ParseNat(Tail(s)) ELSE ParseNat(s)

RECURSIVE NatToString(_)
NatToString(n) ==
    IF n < 10 THEN <<DigitChars[n + 1]>>
    ELSE NatToString(n \div 10) \o <<DigitChars[(n % 10) + 1]>>

\* num.toString()
NumToString(n) == IF n < 0 THEN <<"-">> \o NatToString(0 - n) ELSE NatToString(n)

\* ------------------------------------------------------------ the store
\* A table is a set of rows; a row is a record with its partition key
\* Service, its numeric sort key and its other attributes.
NoErr == "null"

ServiceUnavailable == "ServiceUnavailable"

ValidationException == "ValidationException"

ConditionalCheckFailed == "ConditionalCheckFailedException"

SameKey(r, service, sortKey, n) == r.Service = service /\ r[sortKey] = n

\* A put that leaves the row with the item's key in place.
PutItemBeside(table, row, sortKey) == table \cup {row}

\* putItem: the item replaces the row with its key, if there is one.
PutItem(table, row, sortKey) ==
    {r \in table : ~SameKey(r, row.Service, sortKey, row[sortKey])} \cup {row}

\* deleteItem by key.
DeleteItem(table, service, sortKey, n) ==
    {r \in table : ~SameKey(r, service, sortKey, n)}

RECURSIVE SortDesc(_, _)
SortDesc(rows, sortKey) ==
    IF rows = {} THEN <<>>
    ELSE LET top == CHOOSE r \in rows : \A q \in rows : q[sortKey] <= r[sortKey]
         IN  <<top>> \o SortDesc(rows \ {top}, sortKey)

\* A query without Limit.
Unlimited(seq, n) == seq

\* Limit: n on a query.
FirstN(seq, n) == SubSeq(seq, 1, IF Len(seq) < n THEN Len(seq) ELSE n)

RECURSIVE Reverse(_)
Reverse(seq) ==
    IF seq = <<>> THEN <<>> ELSE Reverse(Tail(seq)) \o <<Head(seq)>>

\* The query with ScanIndexForward left at true: lowest sort key first.
QueryAsc(table, service, sortKey) ==
    Reverse(SortDesc({r \in table : r.Service = service /\ r[sortKey] >= 0},
                     sortKey))

\* The query without its KeyCondition on Service: rows of every partition.
QueryDescAnyService(table, service, sortKey) ==
    SortDesc({r \in table : r[sortKey] >= 0}, sortKey)

\* query with KeyConditions Service EQ service, sortKey GE 0 and
\* ScanIndexForward false: the rows of the partition, highest sort key first.
QueryDesc(table, service, sortKey) ==
    SortDesc({r \in table : r.Service = service /\ r[sortKey] >= 0}, sortKey)

\* The attribute-value encoding of the rows a query returns.
NewsItem(r) ==
    [Heading |-> [S |-> r.Heading], PostID |-> [N |-> NumToString(r.PostID)],
     Text |-> [S |-> r.Text], Service |-> [S |-> r.Service]]

ScoreItem(r) ==
    [Service |-> [S |-> r.Service], Highscore |-> [N |-> NumToString(r.Highscore)],
     Name |-> [S |-> r.Name]]

PostIDItem(r) == [PostID |-> [N |-> NumToString(r.PostID)]]

\* The Items array of a query answer, with the attributes the query asks for.
Items(rows, attributesToGet) ==
    [i \in 1..Len(rows) |->
       CASE attributesToGet = "PostID" -> PostIDItem(rows[i])
         [] attributesToGet = "News" -> NewsItem(rows[i])
         [] attributesToGet = "Score" -> ScoreItem(rows[i])]

\* -------------------------------------------------------------- requests
\* A request body is a record of the fields the client sent; a field the
\* client left out is not in its domain.
\* The fields that carry an N string; the others carry plain strings.
NumberFields == {"postID", "highscore"}

\* body.f in a condition: false when the field is missing or the empty string.
Truthy(body, f) ==
    /\ f \in DOMAIN body
    /\ IF f \in NumberFields THEN body[f] # <<>> ELSE body[f] # ""

NewsStories ==
    {[heading |-> "Patch", text |-> "Fixed bugs"],
     [heading |-> "Event", text |-> "Double XP"]}

PostNewsBodies ==
    {[service |-> s, heading |-> n.heading, text |-> n.text] :
        s \in Services, n \in NewsStories}
    \cup {[heading |-> "Patch", text |-> "Fixed bugs"],
          [service |-> "VERSION1", text |-> "Fixed bugs"],
          [service |-> "VERSION1", heading |-> "Patch"],
          [service |-> "VERSION1", heading |-> "", text |-> "Fixed bugs"]}

PostIDInputs == {NumToString(n) : n \in 0..MaxPostIDInput} \cup {<<"x">>}

DeleteNewsBodies ==
    {[service |-> s, postID |-> p] : s \in Services, p \in PostIDInputs}
    \cup {[service |-> "VERSION1"], [postID |-> <<"0">>],
          [service |-> "VERSION1", postID |-> <<>>]}

PostScoreBodies ==
    {[service |-> "VERSION1", highscore |-> <<"4", "0">>, name |-> "Bob"],
     [service |-> "VERSION1", highscore |-> <<"7", "0">>, name |-> "Bob"],
     [service |-> "VERSION1", highscore |-> <<"-", "5">>, name |-> "Alice"],
     [service |-> "VERSION2", highscore |-> <<"4", "0">>, name |-> "Alice"],
     [service |-> "VERSION1", highscore |-> <<"x">>, name |-> "Alice"],
     [highscore |-> <<"4", "0">>, name |-> "Bob"],
     [service |-> "VERSION1", name |-> "Bob"],
     [service |-> "VERSION1", highscore |-> <<"4", "0">>],
     [service |-> "VERSION1", highscore |-> <<"4", "0">>, name |-> ""]}

DeleteScoreBodies ==
    {[service |-> "VERSION1", highscore |-> <<"4", "0">>, name |-> "Alice"],
     [service |-> "VERSION1", highscore |-> <<"4", "0">>, name |-> "Bob"],
     [service |-> "VERSION1", highscore |-> <<"7", "0">>, name |-> "Bob"],
     [service |-> "VERSION2", highscore |-> <<"9", "9">>, name |-> "Bob"],
     [service |-> "VERSION1", highscore |-> <<"x">>, name |-> "Alice"],
     [highscore |-> <<"4", "0">>, name |-> "Alice"],
     [service |-> "VERSION1", name |-> "Alice"],
     [service |-> "VERSION1", highscore |-> <<"4", "0">>]}

\* ------------------------------------------------------------------ state
VARIABLES
    newsTable,          \* rows of UWS-MobileGameDevNews
    scoreTable,         \* rows of UWS-MobileGameDevScores
    newsSessionPosts,   \* API_News.sessionPosts
    scoreSessionPosts,  \* API_Score.sessionPosts
    req,                \* per client: the request it has in flight
    res,                \* per client: the res.json calls of that request
    hist,               \* per client: history of that request (see IdleHist)
    assigned,           \* per service: highest PostID a successful post got
    newsWrites,         \* puts and deletes executed on the news table
    nreq,               \* requests received so far
    posted,             \* per API: posts the store has accepted so far
    server              \* the Server object (see NewServer)

vars ==
    <<newsTable, scoreTable, newsSessionPosts, scoreSessionPosts,
      req, res, hist, assigned, newsWrites, nreq, posted, server>>

IdleReq == [op |-> "none", body |-> <<>>, pc |-> "idle", postNumber |-> <<>>]

\* calls: the store calls the request issued, in order; err: the err its
\* last callback was given; queried: the value of newsWrites at its ID query;
\* wrote: the value of newsWrites after its write to the news table;
\* replaced: the rows its put or delete took out of the table.
Never == 0 - 1

IdleHist ==
    [calls |-> <<>>, err |-> NoErr, queried |-> Never, wrote |-> Never,
     replaced |-> {}]

\* The tables as earlier sessions have left them: the VERSION2 partition of
\* the news table is still empty.
StoredNews ==
    {[Service |-> "VERSION1", PostID |-> 0, Heading |-> "Launch", Text |-> "Live"],
     [Service |-> "VERSION1", PostID |-> 1, Heading |-> "Patch", Text |-> "Fixed bugs"]}

StoredScores ==
    {[Service |-> "VERSION1", Highscore |-> n * 10, Name |-> "Alice"] : n \in 1..6}
    \cup {[Service |-> "VERSION1", Highscore |-> 0 - 1, Name |-> "Bob"],
          [Service |-> "VERSION2", Highscore |-> 99, Name |-> "Bob"]}

\* new Server(name): portNumber is the port to listen on. listening: the
\* port handed to application.listen, NotListening before start; calls: the
\* ports setListeningPort was called with, in order.
DefaultPort == 3000

MinPort == 2000

StartupPort == 3005

NotListening == 0

NewServer == [portNumber |-> DefaultPort, listening |-> NotListening, calls |-> <<>>]

\* The ports a caller may hand to setListeningPort.
PortInputs == {80, MinPort - 1, MinPort, StartupPort, 8080}

\* Server.prototype.setListeningPort
setListeningPort(this, portNumber) ==
    IF this.portNumber >= MinPort
    THEN [this EXCEPT !.portNumber = portNumber, !.calls = Append(@, portNumber)]
    ELSE [this EXCEPT !.portNumber = DefaultPort, !.calls = Append(@, portNumber)]

\* Server.prototype.start: listen on the stored port.
start(this) == [this EXCEPT !.listening = this.portNumber]

\* The server object once the startup lines of server.js have run.
Started == start(setListeningPort(NewServer, StartupPort))

\* new API_News(), new API_Score(): no request received yet.
InitObjects ==
    /\ newsSessionPosts = 0
    /\ scoreSessionPosts = 0
    /\ req = [c \in Clients |-> IdleReq]
    /\ res = [c \in Clients |-> <<>>]
    /\ hist = [c \in Clients |-> IdleHist]
    /\ assigned = [s \in Services |-> 0 - 1]
    /\ newsWrites = 0
    /\ nreq = 0
    /\ posted = [news |-> 0, score |-> 0]

\* The tables and the API objects before any request.
InitAPIs ==
    /\ newsTable = StoredNews
    /\ scoreTable = StoredScores
    /\ InitObjects

Init == InitAPIs /\ server = Started

\* The server started on tables that hold no row yet.
InitFresh ==
    /\ newsTable = {}
    /\ scoreTable = {}
    /\ InitObjects
    /\ server = Started

\* res.json({"msg": text}) and res.json({"msg": err})
Msg(text) == [msg |-> [S |-> text]]

\* A fixed text sent in place of the err of the store.
ErrMsgFixedText(err) == Msg("Request Failed")

ErrMsg(err) == [msg |-> [code |-> err]]

\* The outcomes of a store call that the request itself does not decide.
Outcomes == {NoErr, ServiceUnavailable}

InFlight(c) == req[c].pc \notin {"idle", "end"}

\* A step of the request of client c.
Step(c, r, sent, h) ==
    /\ req' = [req EXCEPT ![c] = r]
    /\ res' = [res EXCEPT ![c] = sent]
    /\ hist' = [hist EXCEPT ![c] = h]
    /\ posted' = IF sent = <<Msg("News Posted")>>
                 THEN [posted EXCEPT !.news = @ + 1]
                 ELSE IF sent = <<Msg("Score Posted")>>
                      THEN [posted EXCEPT !.score = @ + 1]
                      ELSE posted
    /\ UNCHANGED server

\* Express hands a new request of client c, whose last exchange is over, to
\* a handler.
Receive(c, op, body, pc, sent, calls) ==
    /\ ~InFlight(c)
    /\ nreq' = nreq + 1
    /\ Step(c, [op |-> op, body |-> body, pc |-> pc, postNumber |-> <<>>],
            sent, [IdleHist EXCEPT !.calls = calls])

\* A callback of client c's request runs: sends `sent`, issues `calls`.
Callback(c, err, pc, postNumber, sent, calls, stamp, replaced) ==
    /\ nreq' = nreq
    /\ Step(c, [req[c] EXCEPT !.pc = pc, !.postNumber = postNumber],
            res[c] \o sent,
            [calls |-> hist[c].calls \o calls, err |-> err,
             queried |-> stamp[1], wrote |-> stamp[2], replaced |-> replaced])

\* The stamps of a callback that follows no write, and of one that does.
NoWrite(c) == <<hist[c].queried, Never>>

Write(c) == <<hist[c].queried, newsWrites + 1>>

\* ------------------------------------------------------------- news API
\* getPostID without its increment.
PostNumberNoIncrement(items) ==
    IF Len(items) = 0 THEN <<"0">>
    ELSE NumToString(Number(items[1].PostID.N))

\* The post ID the query callback of getPostID hands on.
PostNumber(items) ==
    IF Len(items) = 0 THEN <<"0">>
    ELSE NumToString(Number(items[1].PostID.N) + 1)


\* The condition of handleNewsPost on the request body.
NewsPostValid(body) ==
    Truthy(body, "heading") /\ Truthy(body, "service") /\ Truthy(body, "text")

HandleNewsPost(c) ==
    /\ \E body \in PostNewsBodies :
         IF NewsPostValid(body)
         THEN Receive(c, "postNews", body, "getPostID", <<>>, <<"query">>)
         ELSE Receive(c, "postNews", body, "end",
                      <<Msg("Didnt provide all information needed")>>, <<>>)
    /\ UNCHANGED <<newsTable, scoreTable, newsSessionPosts, scoreSessionPosts, assigned,
                   newsWrites>>

\* The store answers the query of getPostID and its callback runs.
GetPostIDCallback(c) ==
    /\ req[c].op = "postNews" /\ req[c].pc = "getPostID"
    /\ \E err \in Outcomes :
         IF err # NoErr
         THEN Callback(c, err, "end", <<>>, <<>>, <<>>, NoWrite(c), {})
         ELSE LET news == Items(QueryDesc(newsTable, req[c].body.service, "PostID"),
                                "PostID")
              IN  Callback(c, err, "putItem", PostNumber(news), <<>>, <<"putItem">>,
                           <<newsWrites, Never>>, {})
    /\ UNCHANGED <<newsTable, scoreTable, newsSessionPosts, scoreSessionPosts, assigned,
                   newsWrites>>

\* The item of handleNewsPost with the text put under Heading.
NewsRowHeadingText(body, postNumber) ==
    [Service |-> body.service, PostID |-> Number(postNumber),
     Heading |-> body.text, Text |-> body.text]

\* The item of handleNewsPost with the session counter as its PostID.
NewsRowSessionPosts(body, postNumber) ==
    [Service |-> body.service, PostID |-> newsSessionPosts,
     Heading |-> body.heading, Text |-> body.text]

NewsRow(body, postNumber) ==
    [Service |-> body.service, PostID |-> Number(postNumber),
     Heading |-> body.heading, Text |-> body.text]

Max(a, b) == IF a < b THEN b ELSE a

\* The store executes the putItem of handleNewsPost and its callback runs.
PutNewsCallback(c) ==
    /\ req[c].op = "postNews" /\ req[c].pc = "putItem"
    /\ \E err \in Outcomes :
         IF err # NoErr
         THEN /\ Callback(c, err, "end", req[c].postNumber, <<ErrMsg(err)>>, <<>>,
                          NoWrite(c), {})
              /\ UNCHANGED <<newsTable, assigned, newsWrites>>
         ELSE LET row == NewsRow(req[c].body, req[c].postNumber)
              IN  /\ newsTable' = PutItem(newsTable, row, "PostID")
                  /\ newsWrites' = newsWrites + 1
                  /\ assigned' = [assigned EXCEPT
                                    ![row.Service] = Max(@, row.PostID)]
                  /\ Callback(c, err, "end", req[c].postNumber, <<Msg("News Posted")>>,
                              <<>>, Write(c),
                              {r \in newsTable :
                                 SameKey(r, row.Service, "PostID", row.PostID)})
    /\ UNCHANGED <<scoreTable, newsSessionPosts, scoreSessionPosts>>

HandleListNews(c) ==
    /\ Receive(c, "listNews", <<>>, "query", <<>>, <<"query">>)
    /\ UNCHANGED <<newsTable, scoreTable, newsSessionPosts, scoreSessionPosts, assigned,
                   newsWrites>>

\* The store answers the query of handleListNews and its callback runs.
ListNewsCallback(c) ==
    /\ req[c].op = "listNews" /\ req[c].pc = "query"
    /\ \E err \in Outcomes :
         IF err # NoErr
         THEN Callback(c, err, "end", <<>>, <<>>, <<>>, NoWrite(c), {})
         ELSE LET news == Items(QueryDesc(newsTable, "VERSION1", "PostID"), "News")
              IN  Callback(c, err, "end", <<>>, <<[array |-> news]>>, <<>>, NoWrite(c), {})
    /\ UNCHANGED <<newsTable, scoreTable, newsSessionPosts, scoreSessionPosts, assigned,
                   newsWrites>>

\* The condition without its test of postID.
NewsDeleteValidServiceOnly(body) == Truthy(body, "service")

\* The condition of handleDeleteRequest on the request body.
NewsDeleteValid(body) == Truthy(body, "service") /\ Truthy(body, "postID")

HandleNewsDelete(c) ==
    /\ \E body \in DeleteNewsBodies :
         IF NewsDeleteValid(body)
         THEN Receive(c, "deleteNews", body, "deleteItem", <<>>, <<"deleteItem">>)
         ELSE Receive(c, "deleteNews", body, "end", <<Msg("invalid request")>>, <<>>)
    /\ UNCHANGED <<newsTable, scoreTable, newsSessionPosts, scoreSessionPosts, assigned,
                   newsWrites>>

\* The err of a store call whose key attribute N is `n`, when the store
\* itself answers `outcome`.
KeyError(n, outcome) == IF IsNumeric(n) THEN outcome ELSE ValidationException

\* The deleteItem of the news API under a condition that the row exists.
NewsDeleteErrorIfAbsent(table, body, outcome) ==
    LET keyErr == KeyError(body.postID, outcome)
    IN  IF keyErr # NoErr THEN keyErr
        ELSE IF \E r \in table :
                  SameKey(r, body.service, "PostID", Number(body.postID))
             THEN NoErr ELSE ConditionalCheckFailed

\* The err of the deleteItem of handleDeleteRequest: it carries a key and no
\* condition.
NewsDeleteError(table, body, outcome) == KeyError(body.postID, outcome)

\* The callback of the deleteItem without its else: after an err it goes on
\* to send the success message as well.
DeleteNewsCallbackNoElse(c) ==
    /\ req[c].op = "deleteNews" /\ req[c].pc = "deleteItem"
    /\ \E outcome \in Outcomes :
         LET body == req[c].body
             err == KeyError(body.postID, outcome)
         IN  IF err # NoErr
             THEN /\ Callback(c, err, "end", <<>>,
                              <<ErrMsg(err), Msg("item deleted successful")>>, <<>>,
                              NoWrite(c), {})
                  /\ UNCHANGED <<newsTable, newsWrites>>
             ELSE LET n == Number(body.postID)
                  IN  /\ newsTable' = DeleteItem(newsTable, body.service, "PostID", n)
                      /\ newsWrites' = newsWrites + 1
                      /\ Callback(c, err, "end", <<>>, <<Msg("item deleted successful")>>,
                                  <<>>, Write(c),
                                  {r \in newsTable :
                                     SameKey(r, body.service, "PostID", n)})
    /\ UNCHANGED <<scoreTable, newsSessionPosts, scoreSessionPosts, assigned>>

\* The store executes the deleteItem of handleDeleteRequest and its callback
\* runs.
DeleteNewsCallback(c) ==
    /\ req[c].op = "deleteNews" /\ req[c].pc = "deleteItem"
    /\ \E outcome \in Outcomes :
         LET body == req[c].body
             err == NewsDeleteError(newsTable, body, outcome)
         IN  IF err # NoErr
             THEN /\ Callback(c, err, "end", <<>>, <<ErrMsg(err)>>, <<>>, NoWrite(c), {})
                  /\ UNCHANGED <<newsTable, newsWrites>>
             ELSE LET n == Number(body.postID)
                  IN  /\ newsTable' = DeleteItem(newsTable, body.service, "PostID", n)
                      /\ newsWrites' = newsWrites + 1
                      /\ Callback(c, err, "end", <<>>, <<Msg("item deleted successful")>>,
                                  <<>>, Write(c),
                                  {r \in newsTable :
                                     SameKey(r, body.service, "PostID", n)})
    /\ UNCHANGED <<scoreTable, newsSessionPosts, scoreSessionPosts, assigned>>

\* ------------------------------------------------------------ score API
HandleGetScores(c) ==
    /\ Receive(c, "getTopScores", <<>>, "query", <<>>, <<"query">>)
    /\ UNCHANGED <<newsTable, scoreTable, newsSessionPosts, scoreSessionPosts, assigned,
                   newsWrites>>

\* The store answers the query of handleGetScores and its callback runs.
GetScoresCallback(c) ==
    /\ req[c].op = "getTopScores" /\ req[c].pc = "query"
    /\ \E err \in Outcomes :
         IF err # NoErr
         THEN Callback(c, err, "end", <<>>, <<>>, <<>>, NoWrite(c), {})
         ELSE LET news == Items(FirstN(QueryDesc(scoreTable, "VERSION1", "Highscore"),
                                       Limit), "Score")
              IN  Callback(c, err, "end", <<>>, <<[array |-> news]>>, <<>>, NoWrite(c), {})
    /\ UNCHANGED <<newsTable, scoreTable, newsSessionPosts, scoreSessionPosts, assigned,
                   newsWrites>>

\* The condition of handleScorePost on the request body.
ScorePostValid(body) ==
    Truthy(body, "service") /\ Truthy(body, "highscore") /\ Truthy(body, "name")

HandleScorePost(c) ==
    /\ \E body \in PostScoreBodies :
         IF ScorePostValid(body)
         THEN /\ Receive(c, "postScore", body, "putItem", <<>>, <<"putItem">>)
              /\ scoreSessionPosts' = scoreSessionPosts + 1
         ELSE /\ Receive(c, "postScore", body, "end", <<Msg("Invalid params")>>, <<>>)
              /\ UNCHANGED scoreSessionPosts
    /\ UNCHANGED <<newsTable, scoreTable, newsSessionPosts, assigned, newsWrites>>

ScoreRow(body) ==
    [Service |-> body.service, Highscore |-> Number(body.highscore),
     Name |-> body.name]

\* The store executes the putItem of handleScorePost and its callback runs.
PutScoreCallback(c) ==
    /\ req[c].op = "postScore" /\ req[c].pc = "putItem"
    /\ \E outcome \in Outcomes :
         LET body == req[c].body
             err == KeyError(body.highscore, outcome)
         IN  IF err # NoErr
             THEN /\ Callback(c, err, "end", <<>>, <<Msg("Score Post Failed")>>, <<>>,
                              NoWrite(c), {})
                  /\ UNCHANGED scoreTable
             ELSE LET row == ScoreRow(body)
                  IN  /\ scoreTable' = PutItem(scoreTable, row, "Highscore")
                      /\ Callback(c, err, "end", <<>>, <<Msg("Score Posted")>>, <<>>, NoWrite(c),
                                  {r \in scoreTable :
                                     SameKey(r, row.Service, "Highscore", row.Highscore)})
    /\ UNCHANGED <<newsTable, newsSessionPosts, scoreSessionPosts, assigned, newsWrites>>

\* The condition of handleDeleteRequest on the request body.
ScoreDeleteValid(body) ==
    Truthy(body, "service") /\ Truthy(body, "name") /\ Truthy(body, "highscore")

HandleScoreDelete(c) ==
    /\ \E body \in DeleteScoreBodies :
         IF ScoreDeleteValid(body)
         THEN Receive(c, "deleteScore", body, "deleteItem", <<>>, <<"deleteItem">>)
         ELSE Receive(c, "deleteScore", body, "end", <<Msg("invalid request")>>, <<>>)
    /\ UNCHANGED <<newsTable, scoreTable, newsSessionPosts, scoreSessionPosts, assigned,
                   newsWrites>>

\* A delete whose Expected only asks for a row with the key.
ExpectedAnyName(table, service, n, name) ==
    \E r \in table : SameKey(r, service, "Highscore", n)

\* Expected: {Name: {Exists: true, Value: {S: name}}} on the row with the key.
Expected(table, service, n, name) ==
    \E r \in table : SameKey(r, service, "Highscore", n) /\ r.Name = name

\* The err of the deleteItem of handleDeleteRequest: it carries a key and the
\* condition on Name.
ScoreDeleteError(table, body, outcome) ==
    LET keyErr == KeyError(body.highscore, outcome)
    IN  IF keyErr # NoErr THEN keyErr
        ELSE IF Expected(table, body.service, Number(body.highscore), body.name)
             THEN NoErr ELSE ConditionalCheckFailed

\* The store executes the conditional deleteItem of handleDeleteRequest and
\* its callback runs.
DeleteScoreCallback(c) ==
    /\ req[c].op = "deleteScore" /\ req[c].pc = "deleteItem"
    /\ \E outcome \in Outcomes :
         LET body == req[c].body
             err == ScoreDeleteError(scoreTable, body, outcome)
         IN  IF err # NoErr
             THEN /\ Callback(c, err, "end", <<>>, <<ErrMsg(err)>>, <<>>, NoWrite(c), {})
                  /\ UNCHANGED scoreTable
             ELSE LET n == Number(body.highscore)
                  IN  /\ scoreTable' = DeleteItem(scoreTable, body.service,
                                                  "Highscore", n)
                      /\ Callback(c, err, "end", <<>>, <<Msg("item deleted successful")>>,
                                  <<>>, NoWrite(c),
                                  {r \in scoreTable :
                                     SameKey(r, body.service, "Highscore", n)})
    /\ UNCHANGED <<newsTable, newsSessionPosts, scoreSessionPosts, assigned, newsWrites>>

\* ------------------------------------------------------------ the server
\* Two clients send requests at any time.
Admit == nreq < MaxRequests

Next ==
    \E c \in Clients :
        \/ Admit /\ HandleNewsPost(c)
        \/ GetPostIDCallback(c)
        \/ PutNewsCallback(c)
        \/ Admit /\ HandleListNews(c)
        \/ ListNewsCallback(c)
        \/ Admit /\ HandleNewsDelete(c)
        \/ DeleteNewsCallback(c)
        \/ Admit /\ HandleGetScores(c)
        \/ GetScoresCallback(c)
        \/ Admit /\ HandleScorePost(c)
        \/ PutScoreCallback(c)
        \/ Admit /\ HandleScoreDelete(c)
        \/ DeleteScoreCallback(c)

Spec == Init /\ [][Next]_vars

\* A request is received only when no other request is in flight.
AdmitSeq == nreq < MaxSeqRequests /\ \A d \in Clients : ~InFlight(d)

NextSeq ==
    \E c \in Clients :
        \/ AdmitSeq /\ HandleNewsPost(c)
        \/ GetPostIDCallback(c)
        \/ PutNewsCallback(c)
        \/ AdmitSeq /\ HandleListNews(c)
        \/ ListNewsCallback(c)
        \/ AdmitSeq /\ HandleNewsDelete(c)
        \/ DeleteNewsCallback(c)
        \/ AdmitSeq /\ HandleGetScores(c)
        \/ GetScoresCallback(c)
        \/ AdmitSeq /\ HandleScorePost(c)
        \/ PutScoreCallback(c)
        \/ AdmitSeq /\ HandleScoreDelete(c)
        \/ DeleteScoreCallback(c)

SpecSeq == Init /\ [][NextSeq]_vars

\* The same two clients on tables that start empty.
SpecFresh == InitFresh /\ [][Next]_vars

\* The server object alone, from its construction on: setListeningPort and
\* start are called in any order, before any request is handled.
InitServer == InitAPIs /\ server = NewServer

SetListeningPort ==
    /\ Len(server.calls) < MaxCalls
    /\ \E portNumber \in PortInputs :
         server' = setListeningPort(server, portNumber)
    /\ UNCHANGED <<newsTable, scoreTable, newsSessionPosts, scoreSessionPosts,
                   req, res, hist, assigned, newsWrites, nreq, posted>>

Start ==
    /\ server.listening = NotListening
    /\ server' = start(server)
    /\ UNCHANGED <<newsTable, scoreTable, newsSessionPosts, scoreSessionPosts,
                   req, res, hist, assigned, newsWrites, nreq, posted>>

NextServer == SetListeningPort \/ Start

SpecServer == InitServer /\ [][NextServer]_vars

\* ------------------------------------------------------------ properties
Posted(c) == req[c].op = "postNews" /\ res[c] = <<Msg("News Posted")>>

\* The step in which the put of client c's postNews is executed and answered
\* with success.
NewsPutStep(c) ==
    /\ req[c].op = "postNews" /\ req[c].pc = "putItem"
    /\ req'[c].pc = "end" /\ res'[c] = <<Msg("News Posted")>>

\* The ID after the highest PostID >= 0 stored for the service, 0 when there
\* is none.
NextFree(table, service) ==
    LET ids == {r.PostID : r \in {q \in table : q.Service = service /\ q.PostID >= 0}}
    IN  IF ids = {} THEN 0
        ELSE (CHOOSE m \in ids : \A n \in ids : n <= m) + 1

\* C1: a postNews with service, heading and text, with no step of another
\* request between its ID query and its write, writes its row with PostID =
\* (highest PostID >= 0 stored for the service) + 1, or 0 when the service
\* has no row.
C1_PostIDIsHighestPlusOne ==
    [][\A c \in Clients :
         NewsPutStep(c) /\ hist[c].queried = newsWrites =>
           [Service |-> req[c].body.service,
            PostID |-> NextFree(newsTable, req[c].body.service),
            Heading |-> req[c].body.heading,
            Text |-> req[c].body.text] \in newsTable']_vars

\* Two successive posts on an empty partition: the second one got "1" and
\* its row is stored.
C1_Witness ==
    \E c \in Clients :
        /\ Posted(c) /\ req[c].pc = "end" /\ hist[c].wrote = hist[c].queried + 1
        /\ req[c].body.service = "VERSION2"
        /\ req[c].postNumber = <<"1">>
        /\ \E r \in newsTable : r.Service = "VERSION2" /\ r.PostID = 0
        /\ \E r \in newsTable : r.Service = "VERSION2" /\ r.PostID = 1

\* The row a postNews with this body and post ID is to store.
StoredAs(body, postNumber) ==
    [Service |-> body.service, PostID |-> Number(postNumber),
     Heading |-> body.heading, Text |-> body.text]

\* Both clients are in postNews requests for one service.
SameServicePosts(c, d) ==
    /\ c # d
    /\ req[c].op = "postNews" /\ req[d].op = "postNews"
    /\ NewsPostValid(req[c].body) /\ NewsPostValid(req[d].body)
    /\ req[c].body.service = req[d].body.service

\* The ID queries of c and d both completed before either of their writes,
\* and no other write came between the queries and the writes.
Raced(c, d) ==
    /\ hist[c].queried = hist[d].queried
    /\ {hist[c].wrote, hist[d].wrote} = {hist[c].queried + 1, hist[c].queried + 2}

\* C2: two concurrent postNews for one service whose ID queries both
\* complete before either write compute the same PostID; when both were
\* answered "News Posted", the store holds a single row at that key, the
\* later write's, and that write replaced the other post's row.
C2_ConcurrentPostsCollide ==
    \A c, d \in Clients :
        SameServicePosts(c, d) =>
          /\ ( /\ req[c].pc = "putItem" /\ req[d].pc = "putItem"
               /\ hist[c].queried = newsWrites /\ hist[d].queried = newsWrites )
               => req[c].postNumber = req[d].postNumber
          /\ ( /\ req[c].pc = "end" /\ req[d].pc = "end"
               /\ Posted(c) /\ Posted(d)
               /\ Raced(c, d) )
               => LET n == Number(req[c].postNumber)
                      at == {r \in newsTable :
                               r.Service = req[c].body.service /\ r.PostID = n}
                  IN  /\ req[c].postNumber = req[d].postNumber
                      /\ Cardinality(at) = 1
                      /\ \E w, l \in {c, d} :
                           /\ hist[l].wrote < hist[w].wrote
                           /\ at = {StoredAs(req[w].body, req[w].postNumber)}
                           /\ hist[w].replaced =
                                {StoredAs(req[l].body, req[l].postNumber)}

\* Both posts were answered "News Posted" with the same PostID, and one of
\* the two stories is not in the store.
C2_Witness ==
    \E c, d \in Clients :
        /\ SameServicePosts(c, d)
        /\ req[c].pc = "end" /\ req[d].pc = "end"
        /\ Posted(c) /\ Posted(d)
        /\ Raced(c, d)
        /\ req[c].postNumber = req[d].postNumber
        /\ req[c].body.heading # req[d].body.heading
        /\ StoredAs(req[c].body, req[c].postNumber) \in newsTable
        /\ StoredAs(req[d].body, req[d].postNumber) \notin newsTable
        /\ \A r \in newsTable : r.Heading # req[d].body.heading

\* The elements of a sequence.
Range(seq) == {seq[i] : i \in 1..Len(seq)}

\* The step in which the query of client c's request `op` is answered
\* without error, and the array it is answered with.
QueryStep(c, op) ==
    /\ req[c].op = op /\ req[c].pc = "query"
    /\ req'[c].pc = "end" /\ hist'[c].err = NoErr

Answer(c) == res'[c][1].array

\* C3: a listNews whose query succeeds responds with exactly the rows of
\* service "VERSION1" with PostID >= 0, in strictly descending PostID order;
\* rows of other services are not in the response.
C3_ListNewsDescending ==
    [][\A c \in Clients :
         QueryStep(c, "listNews") =>
           /\ Len(res'[c]) = 1
           /\ Range(Answer(c)) =
                {[Heading |-> [S |-> r.Heading],
                  PostID |-> [N |-> NumToString(r.PostID)],
                  Text |-> [S |-> r.Text],
                  Service |-> [S |-> r.Service]] :
                   r \in {q \in newsTable :
                            q.Service = "VERSION1" /\ q.PostID >= 0}}
           /\ \A i, j \in 1..Len(Answer(c)) :
                i < j => Number(Answer(c)[i].PostID.N) > Number(Answer(c)[j].PostID.N)
           /\ \A i \in 1..Len(Answer(c)) : Answer(c)[i].Service.S = "VERSION1"]_vars

\* A listNews answered with several rows while the table holds a row of
\* another service.
C3_Witness ==
    \E c \in Clients :
        /\ req[c].op = "listNews" /\ req[c].pc = "end"
        /\ Len(res[c]) = 1
        /\ Len(res[c][1].array) >= 2
        /\ \E r \in newsTable : r.Service = "VERSION2"

\* C4: a getTopScores whose query succeeds responds with at most 5 rows, all
\* of partition "VERSION1", in descending Highscore order: the min(5, n) rows
\* with the highest Highscore among the n rows of the partition with
\* Highscore >= 0.
C4_TopScores ==
    [][\A c \in Clients :
         QueryStep(c, "getTopScores") =>
           LET eligible == {r \in scoreTable :
                              r.Service = "VERSION1" /\ r.Highscore >= 0}
               n == Cardinality(eligible)
               shown == {r \in eligible :
                           [Service |-> [S |-> r.Service],
                            Highscore |-> [N |-> NumToString(r.Highscore)],
                            Name |-> [S |-> r.Name]] \in Range(Answer(c))}
           IN  /\ Len(res'[c]) = 1
               /\ Len(Answer(c)) <= 5
               /\ Len(Answer(c)) = IF n < 5 THEN n ELSE 5
               /\ Cardinality(shown) = Len(Answer(c))
               /\ \A i \in 1..Len(Answer(c)) : Answer(c)[i].Service.S = "VERSION1"
               /\ \A i, j \in 1..Len(Answer(c)) :
                    i < j => Number(Answer(c)[i].Highscore.N)
                               > Number(Answer(c)[j].Highscore.N)
               /\ \A r \in shown, q \in eligible \ shown :
                    q.Highscore < r.Highscore]_vars

\* A getTopScores answered with 5 rows, the highest "60", while more than 5
\* rows of the partition are eligible and another partition holds a higher
\* score.
C4_Witness ==
    \E c \in Clients :
        /\ req[c].op = "getTopScores" /\ req[c].pc = "end"
        /\ Len(res[c]) = 1
        /\ Len(res[c][1].array) = 5
        /\ res[c][1].array[1].Highscore.N = <<"6", "0">>
        /\ Cardinality({r \in scoreTable :
                          r.Service = "VERSION1" /\ r.Highscore >= 0}) > 5
        /\ \E r \in scoreTable : r.Service = "VERSION2" /\ r.Highscore = 99

\* No two rows of the scores table have the same (Service, Highscore).
ScoreKeysUnique(table) ==
    \A r, q \in table :
        r.Service = q.Service /\ r.Highscore = q.Highscore => r = q

\* The step in which the put of client c's postScore is executed and answered
\* with success.
ScorePutStep(c) ==
    /\ req[c].op = "postScore" /\ req[c].pc = "putItem"
    /\ req'[c].pc = "end" /\ res'[c] = <<Msg("Score Posted")>>

\* C5: after a successful postScore the store holds exactly one row at
\* (service, highscore) and its Name is the posted name, whatever row was at
\* that key before; the scores table never holds two rows with the same
\* (service, highscore).
C5_ScoreOverwrite ==
    [][/\ ScoreKeysUnique(scoreTable) /\ ScoreKeysUnique(scoreTable')
       /\ \A c \in Clients :
            ScorePutStep(c) =>
              {r \in scoreTable' :
                 /\ r.Service = req[c].body.service
                 /\ r.Highscore = Number(req[c].body.highscore)}
                = {[Service |-> req[c].body.service,
                    Highscore |-> Number(req[c].body.highscore),
                    Name |-> req[c].body.name]}]_vars

\* Bob's score of 40 was posted over Alice's stored 40: the put replaced her
\* row and the key now holds Bob's.
C5_Witness ==
    \E c \in Clients :
        /\ req[c].op = "postScore" /\ req[c].pc = "end"
        /\ res[c] = <<Msg("Score Posted")>>
        /\ req[c].body.name = "Bob"
        /\ hist[c].replaced =
             {[Service |-> "VERSION1", Highscore |-> 40, Name |-> "Alice"]}
        /\ [Service |-> "VERSION1", Highscore |-> 40, Name |-> "Bob"] \in scoreTable
        /\ [Service |-> "VERSION1", Highscore |-> 40, Name |-> "Alice"] \notin scoreTable

\* The step in which the deleteItem of client c's request `op` is executed
\* and answered.
DeleteStep(c, op) ==
    /\ req[c].op = op /\ req[c].pc = "deleteItem"
    /\ req'[c].pc = "end"

Deleted(c) == res[c] = <<Msg("item deleted successful")>>

\* The response is an err of the store.
StoreError(sent) ==
    \E err \in {ServiceUnavailable, ValidationException, ConditionalCheckFailed} :
        sent = <<ErrMsg(err)>>

\* The rows of the scores table a deleteScore body names: key and Name.
Named(table, body) ==
    {r \in table :
       /\ IsNumeric(body.highscore)
       /\ r.Service = body.service
       /\ r.Highscore = Number(body.highscore)
       /\ r.Name = body.name}

\* C6: a deleteScore with all three fields removes the row and responds
\* "item deleted successful" only when a row exists at (service, highscore)
\* whose Name is the given name; when no row is at the key or its Name
\* differs, the response carries the store's error and the table is unchanged.
C6_ConditionalDelete ==
    [][\A c \in Clients :
         DeleteStep(c, "deleteScore") =>
           LET named == Named(scoreTable, req[c].body)
           IN  /\ Deleted(c)' =>
                    named # {} /\ scoreTable' = scoreTable \ named
               /\ scoreTable' # scoreTable => Deleted(c)'
               /\ named = {} =>
                    StoreError(res'[c]) /\ scoreTable' = scoreTable]_vars

\* One deleteScore named the stored holder of a score and removed the row;
\* the other named somebody else and was refused, its row still stored.
C6_Witness ==
    \E c, d \in Clients :
        /\ req[c].op = "deleteScore" /\ req[c].pc = "end" /\ Deleted(c)
        /\ hist[c].replaced # {}
        /\ \A r \in hist[c].replaced : r \notin scoreTable
        /\ req[d].op = "deleteScore" /\ req[d].pc = "end"
        /\ res[d] = <<ErrMsg(ConditionalCheckFailed)>>
        /\ \E r \in scoreTable :
             /\ r.Service = req[d].body.service
             /\ r.Highscore = Number(req[d].body.highscore)
             /\ r.Name # req[d].body.name

Required ==
    [postNews |-> {"service", "heading", "text"},
     deleteNews |-> {"service", "postID"},
     postScore |-> {"service", "highscore", "name"},
     deleteScore |-> {"service", "highscore", "name"}]

ValidationMsg ==
    [postNews |-> "Didnt provide all information needed",
     deleteNews |-> "invalid request",
     postScore |-> "Invalid params",
     deleteScore |-> "invalid request"]

MissingField(r) ==
    /\ r.op \in DOMAIN Required
    /\ \E f \in Required[r.op] : f \notin DOMAIN r.body

\* The request of client c lacks a field, was answered with the validation
\* message of its endpoint, and has issued no store call.
Refused(c) ==
    /\ req[c].pc = "end"
    /\ res[c] = <<Msg(ValidationMsg[req[c].op])>>
    /\ hist[c].calls = <<>>

\* The step in which client c's request is received.
ReceiveStep(c) ==
    /\ nreq' = nreq + 1
    /\ \A d \in Clients \ {c} :
         req'[d] = req[d] /\ res'[d] = res[d] /\ hist'[d] = hist[d]

\* C8: a postNews, deleteNews, postScore or deleteScore request that lacks a
\* required body field is answered with the validation message of its
\* endpoint, issues no query, put or delete, and leaves both tables
\* unchanged.
C8_ValidationFailure ==
    [][\A c \in Clients :
         /\ MissingField(req[c]) => Refused(c)
         /\ MissingField(req'[c]) => Refused(c)'
         /\ ReceiveStep(c) /\ MissingField(req'[c]) =>
              newsTable' = newsTable /\ scoreTable' = scoreTable]_vars

\* A deleteNews without postID and a postScore without name, both refused.
C8_Witness ==
    \E c, d \in Clients :
        /\ req[c].op = "deleteNews" /\ req[c].body = [service |-> "VERSION1"]
        /\ res[c] = <<Msg("invalid request")>>
        /\ req[d].op = "postScore"
        /\ req[d].body = [service |-> "VERSION1", highscore |-> <<"4", "0">>]
        /\ res[d] = <<Msg("Invalid params")>>
        /\ hist[c].calls = <<>> /\ hist[d].calls = <<>>
        /\ newsTable = StoredNews /\ scoreTable = StoredScores

\* C9: every request to the six endpoints receives a JSON response, also
\* when a store call made for it fails: once no callback of the request is
\* left to run, res.json has been called.
C9_EveryRequestAnswered ==
    \A c \in Clients : req[c].pc = "end" => Len(res[c]) >= 1

\* C10: when requests run one at a time, each successful postNews is
\* assigned a PostID strictly greater than the PostID of every earlier
\* successful postNews of its service, also after deletes.
C10_PostIDsIncrease ==
    [][\A c \in Clients :
         NewsPutStep(c) =>
           Number(req[c].postNumber) > assigned[req[c].body.service]]_vars

\* C11: under every interleaving of postNews and deleteNews requests, when a
\* postNews writes its row, its PostID is strictly greater than every PostID
\* stored for the same service at that moment, so the write replaces no row.
C11_PostAboveEveryStoredID ==
    [][\A c \in Clients :
         NewsPutStep(c) =>
           /\ \A r \in newsTable :
                r.Service = req[c].body.service
                  => r.PostID < Number(req[c].postNumber)
           /\ hist'[c].replaced = {}]_vars

\* The step in which setListeningPort is called, and the port supplied.
SetPortStep == Len(server'.calls) = Len(server.calls) + 1

Supplied == server'.calls[Len(server'.calls)]

\* C12: after setListeningPort(p) the server's portNumber is p when p is at
\* least 2000 and 3000 when p is below 2000, whatever port was stored
\* before the call.
C12_PortFollowsArgument ==
    [][SetPortStep =>
         server'.portNumber = IF Supplied >= 2000 THEN Supplied ELSE 3000]_vars

\* The step in which the put or delete of client c's request `op` is
\* answered with an error.
StoreFailStep(c, op) ==
    /\ req[c].op = op /\ req[c].pc \in {"putItem", "deleteItem"}
    /\ req'[c].pc = "end" /\ hist'[c].err # NoErr

\* The response of that step passes the err of the store through.
PassedThrough(c) == res'[c] = <<[msg |-> [code |-> hist'[c].err]]>>

\* C13 as stated: when the put or delete of postNews, postScore, deleteNews
\* or deleteScore fails, "msg" carries the err reported by the store, not a
\* fixed text, and the tables are unchanged.
C13_StoreErrorPassedThrough ==
    [][\A c \in Clients :
         \A op \in {"postNews", "postScore", "deleteNews", "deleteScore"} :
            StoreFailStep(c, op) =>
              /\ PassedThrough(c)
              /\ UNCHANGED <<newsTable, scoreTable>>]_vars

\* C13 amended: when the put or delete fails, postNews, deleteNews and
\* deleteScore pass the err of the store through in "msg", postScore
\* answers the fixed text "Score Post Failed", and in all four the tables
\* are unchanged.
C13_StoreErrorResponse ==
    [][\A c \in Clients :
         /\ \A op \in {"postNews", "deleteNews", "deleteScore"} :
              StoreFailStep(c, op) =>
                PassedThrough(c) /\ UNCHANGED <<newsTable, scoreTable>>
         /\ StoreFailStep(c, "postScore") =>
              /\ res'[c] = <<[msg |-> [S |-> "Score Post Failed"]]>>
              /\ UNCHANGED <<newsTable, scoreTable>>]_vars

\* A deleteScore whose condition failed was answered with the store's err,
\* and a postScore whose put failed with the fixed text.
C13_Witness ==
    \E c, d \in Clients :
        /\ req[c].op = "deleteScore" /\ req[c].pc = "end"
        /\ hist[c].err = ConditionalCheckFailed
        /\ res[c] = <<[msg |-> [code |-> ConditionalCheckFailed]]>>
        /\ req[d].op = "postScore" /\ req[d].pc = "end"
        /\ hist[d].err = ServiceUnavailable
        /\ res[d] = <<[msg |-> [S |-> "Score Post Failed"]]>>
        /\ scoreTable = StoredScores

\* A step of client c's request, the request being an `op`.
StepOf(c, op) == req'[c] # req[c] /\ req'[c].op = op

\* The rows that a step puts into or takes out of a table.
Changed(old, new) == (old \ new) \cup (new \ old)

\* Every step of a postNews leaves the scores table alone and changes no
\* news row other than the one at (service, allocated PostID); no step of
\* a listNews or getTopScores changes any row.
FrameOfNews(c) ==
    /\ StepOf(c, "postNews") =>
         /\ scoreTable' = scoreTable
         /\ \A r \in Changed(newsTable, newsTable') :
              /\ r.Service = req[c].body.service
              /\ r.PostID = Number(req[c].postNumber)
    /\ StepOf(c, "listNews") \/ StepOf(c, "getTopScores") =>
         UNCHANGED <<newsTable, scoreTable>>

\* The step that ends a postNews with all fields present.
PostNewsEnds(c) ==
    /\ req[c].op = "postNews" /\ InFlight(c) /\ req'[c].pc = "end"

\* C14 as stated: a postNews with all fields present issues exactly one
\* store write, one put after one ID query, and changes no row other than
\* the one at (service, allocated PostID); listNews and getTopScores change
\* no row.
C14_ExactlyOneWrite ==
    [][\A c \in Clients :
         /\ PostNewsEnds(c) => hist'[c].calls = <<"query", "putItem">>
         /\ FrameOfNews(c)]_vars

\* C14 amended: a postNews with all fields present issues one ID query and,
\* once that query is answered without error, exactly one put; when the ID
\* query fails it issues no write.  It changes no row other than the one at
\* (service, allocated PostID), and listNews and getTopScores change no row.
C14_AtMostOneWrite ==
    [][\A c \in Clients :
         /\ PostNewsEnds(c) =>
              hist'[c].calls = IF req[c].pc = "getPostID"
                               THEN <<"query">> ELSE <<"query", "putItem">>
         /\ req[c].op = "postNews" /\ req[c].pc = "getPostID" /\ req'[c].pc = "end"
              => hist'[c].err # NoErr
         /\ req[c].op = "postNews" /\ req[c].pc = "getPostID" /\ req'[c].pc = "putItem"
              => hist'[c].err = NoErr /\ hist'[c].calls = <<"query", "putItem">>
         /\ FrameOfNews(c)]_vars

\* A postNews was answered "News Posted" after one query and one put; the
\* news table holds its row beside the rows it had, the scores table is as
\* it was.
C14_Witness ==
    \E c \in Clients :
        /\ Posted(c) /\ req[c].pc = "end"
        /\ hist[c].calls = <<"query", "putItem">>
        /\ Cardinality(newsTable) = Cardinality(StoredNews) + 1
        /\ newsTable = StoredNews \cup {StoredAs(req[c].body, req[c].postNumber)}
        /\ scoreTable = StoredScores

\* C15: no handler sends more than one response for a single request: on
\* every path (validation failure, store error, store success, under any
\* interleaving of the callbacks) res.json is called at most once.
C15_AtMostOneResponse ==
    \A c \in Clients : Len(res[c]) <= 1

\* Two of the paths, each ended with exactly one response: a postNews whose
\* put succeeded and a deleteNews whose deleteItem failed.
C15_Witness ==
    \E c, d \in Clients :
        /\ c # d
        /\ req[c].pc = "end" /\ req[d].pc = "end"
        /\ Posted(c) /\ hist[c].calls = <<"query", "putItem">>
        /\ Len(res[c]) = 1
        /\ req[d].op = "deleteNews" /\ hist[d].calls = <<"deleteItem">>
        /\ hist[d].err # NoErr
        /\ Len(res[d]) = 1
        /\ hist[d].wrote = Never /\ hist[c].queried < newsWrites

\* The step in which the ID query of client c's postNews is answered
\* without error.
IDQueryStep(c) ==
    /\ req[c].op = "postNews" /\ req[c].pc = "getPostID"
    /\ req'[c].pc = "putItem"

\* The step in which a put or delete of client c's request on the news
\* table is executed.
NewsWriteStep(c) ==
    /\ req[c].op \in {"postNews", "deleteNews"}
    /\ req'[c] # req[c]
    /\ newsWrites' = newsWrites + 1

\* C16: the PostID allocated for service s is computed from the rows stored
\* under s alone; a post or delete under a service t changes no row, and so
\* not the next PostID, of any other service; concurrent posts for
\* different services do not overwrite each other's row.
C16_AllocationPerService ==
    [][\A c \in Clients :
         /\ IDQueryStep(c) =>
              LET s == req[c].body.service
              IN  Number(req'[c].postNumber) =
                    NextFree({r \in newsTable : r.Service = s}, s)
         /\ NewsWriteStep(c) =>
              LET t == req[c].body.service
              IN  /\ \A r \in Changed(newsTable, newsTable') : r.Service = t
                  /\ \A s \in Services \ {t} :
                       NextFree(newsTable', s) = NextFree(newsTable, s)
                  /\ \A d \in Clients \ {c} :
                       /\ req[d].op = "postNews" /\ Posted(d)
                       /\ req[d].body.service # t
                       /\ StoredAs(req[d].body, req[d].postNumber) \in newsTable
                       => StoredAs(req[d].body, req[d].postNumber) \in newsTable']_vars

\* Two concurrent posts for different services, their ID queries both
\* answered before either put: VERSION1 got "2", VERSION2 got "0", and both
\* rows are stored.
C16_Witness ==
    \E c, d \in Clients :
        /\ req[c].op = "postNews" /\ req[d].op = "postNews"
        /\ req[c].pc = "end" /\ req[d].pc = "end"
        /\ Posted(c) /\ Posted(d)
        /\ Raced(c, d)
        /\ req[c].body.service = "VERSION1" /\ req[c].postNumber = <<"2">>
        /\ req[d].body.service = "VERSION2" /\ req[d].postNumber = <<"0">>
        /\ StoredAs(req[c].body, req[c].postNumber) \in newsTable
        /\ StoredAs(req[d].body, req[d].postNumber) \in newsTable

\* The rows of service "VERSION1" that rank among the 5 highest scores
\* stored: fewer than 5 rows of the service have a higher Highscore.
TopFive(table) ==
    {r \in table :
       /\ r.Service = "VERSION1"
       /\ Cardinality({q \in table : q.Service = "VERSION1"
                                       /\ q.Highscore > r.Highscore}) < 5}

\* C17: every score accepted by postScore for service "VERSION1" is
\* visible to getTopScores while it is stored and ranks among the 5
\* highest: a getTopScores whose query succeeds returns each such row.
C17_AcceptedScoresVisible ==
    [][\A c \in Clients :
         QueryStep(c, "getTopScores") =>
           \A r \in TopFive(scoreTable) :
              [Service |-> [S |-> r.Service],
               Highscore |-> [N |-> NumToString(r.Highscore)],
               Name |-> [S |-> r.Name]] \in Range(Answer(c))]_vars

\* C18: after any sequence of requests, API_News.sessionPosts is the number
\* of news stories posted and API_Score.sessionPosts the number of scores
\* posted (a post refused by validation or failed in the store is not
\* counted), and neither counter ever decreases.
C18_SessionPostsCountPosts ==
    [][/\ newsSessionPosts' >= newsSessionPosts
       /\ scoreSessionPosts' >= scoreSessionPosts
       /\ (\A c \in Clients : req'[c].pc \in {"idle", "end"}) =>
            /\ newsSessionPosts' = posted'.news
            /\ scoreSessionPosts' = posted'.score]_vars

====
